---- MODULE Spec2Model ----
(***************************************************************************)
(* A model of the snark coordinator (src/src/main.rs): the lease map       *)
(* behind PUT /lock-job/{key}, the reaper task that evicts expired leases, *)
(* the worker-stats registry behind PUT /worker-stats/{worker_id}, and the  *)
(* two queries on it, GET /workers and GET /worker-stats.                  *)
(*                                                                         *)
(* Every handler takes the mutex of the one map it touches before reading  *)
(* it and holds it, without awaiting, until it has built its answer, so a  *)
(* handler is one atomic action and concurrent requests are interleavings  *)
(* of these actions in the order in which they obtain the mutex.           *)
(*                                                                         *)
(* Instants are whole numbers of seconds on the monotonic clock.           *)
(***************************************************************************)
EXTENDS Integers, Sequences, FiniteSets, TLC

VARIABLES
    opts,          \* Opts: default_timeout, max_timeout, max_key_len
    now,           \* Instant::now(), the monotonic clock
    kv,            \* table: HashMap<String, Instant>, key -> expiry instant
    reaper_wake,   \* instant at which the reaper's current sleep is over
    stats,         \* worker_stats: HashMap<String, VecDeque<SnarkWorkerState>>
    resp,          \* the request answered by the last step, with its status and body
    granted,       \* history: per key, the last 201 answered, [at, ttl], if any
    served,        \* history: per key, the statuses answered since the last reaper tick
    free_at_tick,  \* history: per key, whether it was absent right after the last tick
    ran_out,       \* history: per key, whether at the last reaper tick its last
                   \* lease had run out (at + ttl <= instant of the tick)
    issued,        \* history: the ids answered to the Registers accepted in this run
    raced          \* history: the last event accepted on a pending front, with the
                   \* front it found and the statuses answered, from this one
                   \* on, to the events of the same worker valid for that front

vars == <<opts, now, kv, reaper_wake, stats, resp, granted, served, free_at_tick, ran_out,
          issued, raced>>

-----------------------------------------------------------------------------
(* Bounds of the model *)

\* the clock runs from 0 to MaxTime
MaxTime == 5
\* at most MaxBurst lease requests per key between two reaper ticks
MaxBurst == 3
\* at most MaxPuts worker-stats requests are accepted in a run
MaxPuts == 4
\* at most MaxRegisters Registers are accepted on a crowded registry
MaxRegisters == 3

-----------------------------------------------------------------------------
(* Option<T> *)

None == <<>>
Some(x) == <<x>>
UnwrapOr(o, d) == IF o = None THEN d ELSE o[1]

Min(a, b) == IF a <= b THEN a ELSE b

-----------------------------------------------------------------------------
(* Inputs *)

\* lock keys of length 1, 2 and 3
LockKeys == {"a", "bb", "ccc"}
\* the ?timeout= query parameter
TimeoutParams == {None, Some(0), Some(3)}
\* command lines the service is started with
OptsSpace == [default_timeout : {1, 3}, max_timeout : {2}, max_key_len : {2}]

\* the {worker_id} of PUT /worker-stats/{worker_id}: of a Register, and of
\* the other events
WorkerNames == {"w"}
WorkerIds == {"w_1"}
\* the time a worker reports in an event
EventTimes == {1, 2}
\* the ids of a job batch
Ids == {"a", "b"}
\* the three node-side timestamps of a job-get event and of a work-submit event
JobGetNodeTimes == {<<Some(3), None, Some(4)>>}
WorkSubmitNodeTimes == {<<None, Some(5), Some(6)>>}
\* the ?workers= query parameter, as the sequence of its commas and of the
\* pieces between them, and the ?from_t= and ?to_t= parameters
WorkersParams == {None, Some(<<"w_1">>), Some(<<"x", ",", "w_2">>)}
FromParams == {None, Some(2)}
ToParams == {None, Some(1)}
WorkerStatsGetParams == [workers : WorkersParams, from_t : FromParams, to_t : ToParams]
\* SnarkWorkerJobGetError, and the error: String of the other error events
JobGetErrors == {[kind |-> "NoAvailableJob"], [kind |-> "Other", error |-> "e"]}
ErrorStrings == {"e"}

-----------------------------------------------------------------------------
(* The lease map *)

\* the reaper sleeps Duration::from_secs(2) between two ticks
ReapInterval == 2

\* kv.retain(|_, t| *t > now): the entries that stay
RetainInverted(m, t_now) ==
    [k \in {x \in DOMAIN m : m[x] < t_now} |-> m[k]]
RetainAtExpiry(m, t_now) ==
    [k \in {x \in DOMAIN m : m[x] >= t_now} |-> m[k]]
Retain(m, t_now) ==
    [k \in {x \in DOMAIN m : m[x] > t_now} |-> m[k]]

\* query.timeout.unwrap_or(default_timeout).min(max_timeout)
TimeoutSDefaultUnclamped(timeout) ==
    IF timeout = None THEN opts.default_timeout ELSE Min(timeout[1], opts.max_timeout)
TimeoutS(timeout) == Min(UnwrapOr(timeout, opts.default_timeout), opts.max_timeout)

\* len > max_key_len, the request is refused
KeyTooLongOffByOne(key) == Len(key) >= opts.max_key_len
KeyTooLong(key) == Len(key) > opts.max_key_len

\* kv.entry(key) is Entry::Vacant
VacantOrExpired(m, key) == key \notin DOMAIN m \/ m[key] <= now
Vacant(m, key) == key \notin DOMAIN m

\* v.insert(t) on the vacant entry
Insert(m, key, t) == [k \in DOMAIN m \cup {key} |-> IF k = key THEN t ELSE m[k]]

\* the else branch, on an occupied entry: the map is not touched
Renew(m, key, t) == [m EXCEPT ![key] = t]
OnOccupied(m, key, t) == m

\* the entry a request finds under its key, for the record of the answer
Found(m, key) == IF key \in DOMAIN m THEN Some(m[key]) ELSE None

LockJobAnswer(key, timeout, status) ==
    [op |-> "lock_job_put", key |-> key, timeout |-> timeout, status |-> status,
     found |-> Found(kv, key), before |-> granted[key]]

\* resp after a step that answers no request
NoAnswer == [op |-> "none"]

\* the lease window of a 201 answered at g.at for g.ttl seconds has run out by t
RunsOutBy(g, t) == g # None /\ g[1].at + g[1].ttl <= t

\* the clock advances by one second
Tick ==
    /\ now < MaxTime
    /\ now' = now + 1
    /\ resp' = NoAnswer
    /\ UNCHANGED <<opts, kv, reaper_wake, stats, granted, served, free_at_tick, ran_out,
                 issued, raced>>

\* one iteration of the reaper loop: the sleep is over, lock, retain, unlock,
\* and the next sleep starts
ReaperTick ==
    /\ now >= reaper_wake
    /\ kv' = Retain(kv, now)
    /\ reaper_wake' = now + ReapInterval
    /\ served' = [k \in LockKeys |-> <<>>]
    /\ free_at_tick' = [k \in LockKeys |-> k \notin DOMAIN kv']
    /\ ran_out' = [k \in LockKeys |-> RunsOutBy(granted[k], now)]
    /\ resp' = NoAnswer
    /\ UNCHANGED <<opts, now, stats, granted, issued, raced>>

\* PUT /lock-job/{key}?timeout={timeout}
LockJobPut(key, timeout) ==
    /\ Len(served[key]) < MaxBurst
    /\ now + TimeoutS(timeout) + ReapInterval <= MaxTime
    /\ IF KeyTooLong(key)
       THEN /\ resp' = LockJobAnswer(key, timeout, 400)
            /\ UNCHANGED <<kv, granted, served>>
       ELSE IF Vacant(kv, key)
       THEN /\ kv' = Insert(kv, key, now + TimeoutS(timeout))
            /\ resp' = LockJobAnswer(key, timeout, 201)
            /\ granted' = [granted EXCEPT ![key] =
                              Some([at |-> now, ttl |-> TimeoutS(timeout)])]
            /\ served' = [served EXCEPT ![key] = Append(@, 201)]
       ELSE /\ kv' = OnOccupied(kv, key, now + TimeoutS(timeout))
            /\ resp' = LockJobAnswer(key, timeout, 200)
            /\ served' = [served EXCEPT ![key] = Append(@, 200)]
            /\ UNCHANGED granted
    /\ UNCHANGED <<opts, now, reaper_wake, stats, free_at_tick, ran_out, issued, raced>>

-----------------------------------------------------------------------------
(* SnarkWorkerStatsPut: the events of a request body *)

RegisterEvents == [kind : {"Register"}, time : EventTimes]
JobGetInitEvents == [kind : {"JobGetInit"}, time : EventTimes]
JobGetErrorEvents ==
    {[kind |-> "JobGetError", time |-> t,
      job_get_node_received_t |-> n[1],
      job_get_node_request_work_init_t |-> n[2],
      job_get_node_request_work_success_t |-> n[3],
      error |-> e] : t \in EventTimes, n \in JobGetNodeTimes, e \in JobGetErrors}
JobGetSuccessEvents ==
    {[kind |-> "JobGetSuccess", time |-> t,
      job_get_node_received_t |-> n[1],
      job_get_node_request_work_init_t |-> n[2],
      job_get_node_request_work_success_t |-> n[3],
      ids |-> i] : t \in EventTimes, n \in JobGetNodeTimes, i \in Ids}
WorkCreateErrorEvents ==
    [kind : {"WorkCreateError"}, time : EventTimes, ids : Ids, error : ErrorStrings]
WorkCreateSuccessEvents ==
    [kind : {"WorkCreateSuccess"}, time : EventTimes, ids : Ids]
WorkSubmitErrorEvents ==
    {[kind |-> "WorkSubmitError", time |-> t,
      work_submit_node_received_t |-> n[1],
      work_submit_node_add_work_init_t |-> n[2],
      work_submit_node_add_work_success_t |-> n[3],
      ids |-> i, error |-> e] :
        t \in EventTimes, n \in WorkSubmitNodeTimes, i \in Ids, e \in ErrorStrings}
WorkSubmitSuccessEvents ==
    {[kind |-> "WorkSubmitSuccess", time |-> t,
      work_submit_node_received_t |-> n[1],
      work_submit_node_add_work_init_t |-> n[2],
      work_submit_node_add_work_success_t |-> n[3],
      ids |-> i] : t \in EventTimes, n \in WorkSubmitNodeTimes, i \in Ids}

SnarkWorkerStatsPut ==
    RegisterEvents \cup JobGetInitEvents \cup JobGetErrorEvents \cup JobGetSuccessEvents
        \cup WorkCreateErrorEvents \cup WorkCreateSuccessEvents
        \cup WorkSubmitErrorEvents \cup WorkSubmitSuccessEvents

-----------------------------------------------------------------------------
(* SnarkWorkerState: the snapshots of a history *)

Registered(time) == [kind |-> "Registered", registered_t |-> time]

\* SnarkWorkerState::init
init(time) == [kind |-> "JobGetPending", job_get_init_t |-> time]

\* SnarkWorkerState::start_time
start_time(s) == IF s.kind = "Registered" THEN s.registered_t ELSE s.job_get_init_t

\* SnarkWorkerState::end_time
end_time(s) ==
    CASE s.kind = "Registered" -> s.registered_t
      [] s.kind = "JobGetPending" -> s.job_get_init_t
      [] s.kind = "JobGetError" -> s.job_get_error_t
      [] s.kind = "WorkCreatePending" -> s.job_get_success_t
      [] s.kind = "WorkCreateError" -> s.work_create_error_t
      [] s.kind = "WorkSubmitPending" -> s.work_create_success_t
      [] s.kind = "WorkSubmitError" -> s.work_submit_error_t
      [] s.kind = "WorkSubmitSuccess" -> s.work_submit_success_t

\* the guard `if ids == expected_ids` of the match arms of apply
IdsAny(ids, expected_ids) == TRUE
IdsMatch(ids, expected_ids) == ids = expected_ids

\* the arms of apply on a JobGetPending snapshot
ApplyJobGetPending(s, v) ==
    CASE v.kind = "JobGetError" ->
            [ok |-> TRUE,
             state |-> [kind |-> "JobGetError",
                        job_get_init_t |-> s.job_get_init_t,
                        job_get_node_received_t |-> v.job_get_node_received_t,
                        job_get_node_request_work_init_t |->
                            v.job_get_node_request_work_init_t,
                        job_get_node_request_work_success_t |->
                            v.job_get_node_request_work_success_t,
                        job_get_error_t |-> v.time,
                        error |-> v.error]]
      [] v.kind = "JobGetSuccess" ->
            [ok |-> TRUE,
             state |-> [kind |-> "WorkCreatePending",
                        job_get_init_t |-> s.job_get_init_t,
                        job_get_node_received_t |-> v.job_get_node_received_t,
                        job_get_node_request_work_init_t |->
                            v.job_get_node_request_work_init_t,
                        job_get_node_request_work_success_t |->
                            v.job_get_node_request_work_success_t,
                        job_get_success_t |-> v.time,
                        ids |-> v.ids]]
      [] OTHER -> [ok |-> FALSE, state |-> s]

\* the arms of apply on a WorkCreatePending snapshot
ApplyWorkCreatePending(s, v) ==
    CASE v.kind = "WorkCreateError" /\ IdsMatch(v.ids, s.ids) ->
            [ok |-> TRUE,
             state |-> [kind |-> "WorkCreateError",
                        job_get_init_t |-> s.job_get_init_t,
                        job_get_node_received_t |-> s.job_get_node_received_t,
                        job_get_node_request_work_init_t |->
                            s.job_get_node_request_work_init_t,
                        job_get_node_request_work_success_t |->
                            s.job_get_node_request_work_success_t,
                        job_get_success_t |-> s.job_get_success_t,
                        work_create_error_t |-> v.time,
                        ids |-> v.ids,
                        error |-> v.error]]
      [] v.kind = "WorkCreateSuccess" /\ IdsMatch(v.ids, s.ids) ->
            [ok |-> TRUE,
             state |-> [kind |-> "WorkSubmitPending",
                        job_get_init_t |-> s.job_get_init_t,
                        job_get_node_received_t |-> s.job_get_node_received_t,
                        job_get_node_request_work_init_t |->
                            s.job_get_node_request_work_init_t,
                        job_get_node_request_work_success_t |->
                            s.job_get_node_request_work_success_t,
                        job_get_success_t |-> s.job_get_success_t,
                        work_create_success_t |-> v.time,
                        ids |-> v.ids]]
      [] OTHER -> [ok |-> FALSE, state |-> s]

\* the arms of apply on a WorkSubmitPending snapshot
ApplyWorkSubmitPending(s, v) ==
    CASE v.kind = "WorkSubmitError" /\ IdsMatch(v.ids, s.ids) ->
            [ok |-> TRUE,
             state |-> [kind |-> "WorkSubmitError",
                        job_get_init_t |-> s.job_get_init_t,
                        job_get_node_received_t |-> s.job_get_node_received_t,
                        job_get_node_request_work_init_t |->
                            s.job_get_node_request_work_init_t,
                        job_get_node_request_work_success_t |->
                            s.job_get_node_request_work_success_t,
                        job_get_success_t |-> s.job_get_success_t,
                        work_create_success_t |-> s.work_create_success_t,
                        work_submit_error_t |-> v.time,
                        ids |-> v.ids,
                        error |-> v.error]]
      [] v.kind = "WorkSubmitSuccess" /\ IdsMatch(v.ids, s.ids) ->
            [ok |-> TRUE,
             state |-> [kind |-> "WorkSubmitSuccess",
                        job_get_init_t |-> s.job_get_init_t,
                        job_get_node_received_t |-> s.job_get_node_received_t,
                        job_get_node_request_work_init_t |->
                            s.job_get_node_request_work_init_t,
                        job_get_node_request_work_success_t |->
                            s.job_get_node_request_work_success_t,
                        job_get_success_t |-> s.job_get_success_t,
                        work_create_success_t |-> s.work_create_success_t,
                        work_submit_node_received_t |-> v.work_submit_node_received_t,
                        work_submit_node_add_work_init_t |->
                            v.work_submit_node_add_work_init_t,
                        work_submit_node_add_work_success_t |->
                            v.work_submit_node_add_work_success_t,
                        work_submit_success_t |-> v.time,
                        ids |-> v.ids]]
      [] OTHER -> [ok |-> FALSE, state |-> s]

\* SnarkWorkerState::apply: ok is the bool it returns, state is *self after it
applyRestartsCycle(s, v) ==
    LET r == CASE s.kind = "JobGetPending" -> ApplyJobGetPending(s, v)
               [] s.kind = "WorkCreatePending" -> ApplyWorkCreatePending(s, v)
               [] s.kind = "WorkSubmitPending" -> ApplyWorkSubmitPending(s, v)
               [] OTHER -> [ok |-> FALSE, state |-> s]
    IN IF r.ok
       THEN [ok |-> TRUE, state |-> [r.state EXCEPT !.job_get_init_t = v.time]]
       ELSE r
applyNoCatchAll(s, v) ==
    CASE s.kind = "JobGetPending" -> ApplyJobGetPending(s, v)
      [] s.kind = "WorkCreatePending" -> ApplyWorkCreatePending(s, v)
      [] s.kind = "WorkSubmitPending" -> ApplyWorkSubmitPending(s, v)
      [] OTHER -> [ok |-> TRUE, state |-> s]
apply(s, v) ==
    CASE s.kind = "JobGetPending" -> ApplyJobGetPending(s, v)
      [] s.kind = "WorkCreatePending" -> ApplyWorkCreatePending(s, v)
      [] s.kind = "WorkSubmitPending" -> ApplyWorkSubmitPending(s, v)
      [] OTHER -> [ok |-> FALSE, state |-> s]

-----------------------------------------------------------------------------
(* The worker registry *)

\* for i in 1..4096
RegisterEnd == 4096

\* format!("{worker_id}_{i}")
Format(worker_id, i) == worker_id \o "_" \o ToString(i)

\* the loop of the Register branch: the first i of the range 1..4096 (4096
\* excluded), from i on, whose entry is vacant; 0 when the loop ends without
\* one. The loop is written as a search over the range, not as a recursion,
\* so that it can run its 4095 iterations
FirstNoSkip(m, worker_id, i) == i
FirstVacantInclusive(m, worker_id, i) ==
    IF \E n \in i..RegisterEnd : Format(worker_id, n) \notin DOMAIN m
    THEN CHOOSE n \in i..RegisterEnd :
             /\ Format(worker_id, n) \notin DOMAIN m
             /\ \A k \in i..(n - 1) : Format(worker_id, k) \in DOMAIN m
    ELSE 0
FirstVacant(m, worker_id, i) ==
    IF \E n \in i..(RegisterEnd - 1) : Format(worker_id, n) \notin DOMAIN m
    THEN CHOOSE n \in i..(RegisterEnd - 1) :
             /\ Format(worker_id, n) \notin DOMAIN m
             /\ \A k \in i..(n - 1) : Format(worker_id, k) \in DOMAIN m
    ELSE 0

\* stats.insert(val) on a vacant entry
InsertHistory(m, id, val) ==
    [k \in DOMAIN m \cup {id} |-> IF k = id THEN val ELSE m[k]]

\* v.push_front(state)
push_back(v, state) == v \o <<state>>
push_front(v, state) == <<state>> \o v

\* the number of requests accepted so far: every one of them has added a
\* snapshot to a history or moved a front snapshot one stage on
Stage(s) ==
    CASE s.kind \in {"Registered", "JobGetPending"} -> 1
      [] s.kind \in {"JobGetError", "WorkCreatePending"} -> 2
      [] s.kind \in {"WorkCreateError", "WorkSubmitPending"} -> 3
      [] s.kind \in {"WorkSubmitError", "WorkSubmitSuccess"} -> 4

RECURSIVE SumStages(_)
SumStages(v) == IF v = <<>> THEN 0 ELSE Stage(Head(v)) + SumStages(Tail(v))

RECURSIVE Puts(_, _)
Puts(m, ids) ==
    IF ids = {} THEN 0
    ELSE LET id == CHOOSE x \in ids : TRUE
         IN SumStages(m[id]) + Puts(m, ids \ {id})

\* the transition table: the pairs of a front snapshot and an event that are
\* accepted, with matching ids where both carry them
InTable(s, v) ==
    \/ s.kind = "JobGetPending" /\ v.kind \in {"JobGetError", "JobGetSuccess"}
    \/ s.kind = "WorkCreatePending"
           /\ v.kind \in {"WorkCreateError", "WorkCreateSuccess"} /\ v.ids = s.ids
    \/ s.kind = "WorkSubmitPending"
           /\ v.kind \in {"WorkSubmitError", "WorkSubmitSuccess"} /\ v.ids = s.ids

\* the record of a race: the event req accepted on the front it found, or the
\* race going on when req is one more event valid for the front of that race
RaceAfter(worker_id, req, status) ==
    IF req.kind = "Register" THEN raced
    ELSE IF req.kind = "JobGetInit"
    THEN IF raced # None /\ raced[1].worker_id = worker_id THEN None ELSE raced
    ELSE IF raced # None /\ raced[1].worker_id = worker_id /\ InTable(raced[1].front, req)
    THEN IF Len(raced[1].statuses) < 2
         THEN Some([raced[1] EXCEPT !.statuses = Append(@, status)])
         ELSE raced
    ELSE IF status = 200 /\ worker_id \in DOMAIN stats /\ stats[worker_id] # <<>>
    THEN Some([worker_id |-> worker_id, front |-> Head(stats[worker_id]),
               winner |-> req, statuses |-> <<200>>])
    ELSE raced

StatsAnswer(worker_id, req, status, body) ==
    [op |-> "worker_stats_put", worker_id |-> worker_id, req |-> req,
     status |-> status, body |-> body]

\* the Register branch
RegisterBranch(worker_id, req) ==
    LET i == FirstVacant(stats, worker_id, 1)
    IN IF i # 0
       THEN /\ stats' = InsertHistory(stats, Format(worker_id, i), <<Registered(req.time)>>)
            /\ resp' = StatsAnswer(worker_id, req, 200, Format(worker_id, i))
       ELSE /\ resp' = StatsAnswer(worker_id, req, 400,
                                   "too many workers under same worker_id")
            /\ UNCHANGED stats

\* *self = ... in apply, on v.front_mut(): the front is replaced in place
ReplaceFrontDropRest(v, state) == <<state>>
ReplaceFront(v, state) == <<state>> \o Tail(v)

\* the vacant entry and an event other than JobGetInit: the arm inserts nothing
VacantOtherOrDefault(m, worker_id) == InsertHistory(m, worker_id, <<>>)
VacantOther(m, worker_id) == m

\* match stats.entry(worker_id), for every other event
EntryBranch(worker_id, req) ==
    IF worker_id \notin DOMAIN stats
    THEN IF req.kind = "JobGetInit"
         THEN /\ stats' = InsertHistory(stats, worker_id, push_front(<<>>, init(req.time)))
              /\ resp' = StatsAnswer(worker_id, req, 200, "")
         ELSE /\ resp' = StatsAnswer(worker_id, req, 400, "unexpected worker_stats/put")
              /\ stats' = VacantOther(stats, worker_id)
    ELSE LET v == stats[worker_id]
         IN IF req.kind = "JobGetInit"
            THEN /\ stats' = [stats EXCEPT ![worker_id] = push_front(v, init(req.time))]
                 /\ resp' = StatsAnswer(worker_id, req, 200, "")
            ELSE IF v = <<>>
            THEN \* front_mut() is None: unwrap_or(false)
                 /\ resp' = StatsAnswer(worker_id, req, 200, "")
                 /\ UNCHANGED stats
            ELSE IF ~apply(Head(v), req).ok
            THEN /\ resp' = StatsAnswer(worker_id, req, 400, "unexpected worker_stats/put")
                 /\ UNCHANGED stats
            ELSE /\ stats' = [stats EXCEPT ![worker_id] =
                                 ReplaceFront(v, apply(Head(v), req).state)]
                 /\ resp' = StatsAnswer(worker_id, req, 200, "")

\* the handler worker_stats_put
HandleWorkerStatsPut(worker_id, req) ==
    /\ IF req.kind = "Register"
       THEN RegisterBranch(worker_id, req)
       ELSE EntryBranch(worker_id, req)
    /\ issued' = IF req.kind = "Register" /\ resp'.status = 200
                 THEN Append(issued, resp'.body)
                 ELSE issued
    /\ raced' = RaceAfter(worker_id, req, resp'.status)
    /\ UNCHANGED <<opts, now, kv, reaper_wake, granted, served, free_at_tick, ran_out>>

\* PUT /worker-stats/{worker_id} with the body req
WorkerStatsPut(worker_id, req) ==
    /\ Puts(stats, DOMAIN stats) < MaxPuts
    /\ HandleWorkerStatsPut(worker_id, req)

-----------------------------------------------------------------------------
(* The queries: GET /workers and GET /worker-stats *)

\* GET /workers: the keys of the registry, in the order of the map's iterator,
\* which is no order: the body is the set of its elements
WorkersGet ==
    /\ resp' = [op |-> "workers_get", status |-> 200, body |-> DOMAIN stats]
    /\ UNCHANGED <<opts, now, kv, reaper_wake, stats, granted, served, free_at_tick,
                   ran_out, issued, raced>>

\* s.split(","), of a string given as the sequence of its commas and of the
\* pieces between them: the segments between the commas, the last one begun
\* being cur
RECURSIVE Split(_, _)
Split(s, cur) ==
    IF s = <<>> THEN <<cur>>
    ELSE IF Head(s) = "," THEN <<cur>> \o Split(Tail(s), "")
    ELSE Split(Tail(s), cur \o Head(s))

\* params.workers.map(|s| s.split(",") ... collect::<Vec<_>>())
WorkersFilter(workers) == IF workers = None THEN None ELSE Some(Split(workers[1], ""))

\* f.contains(k)
Contains(f, k) == \E i \in 1..Len(f) : f[i] = k

\* the filter on the entries: workers_filter.as_ref().map_or(true, |f| f.contains(k))
KeptAlways(workers_filter, k) == TRUE
Kept(workers_filter, k) == workers_filter = None \/ Contains(workers_filter[1], k)

\* skip_while(|v| end_t_filter.map_or(false, |f| f < v.end_time()))
RECURSIVE SkipWhile(_, _)
SkipWhile(states, end_t_filter) ==
    IF states = <<>> THEN <<>>
    ELSE IF end_t_filter # None /\ end_t_filter[1] < end_time(Head(states))
    THEN SkipWhile(Tail(states), end_t_filter)
    ELSE states

\* take_while(|v| start_t_filter.map_or(true, |f| v.start_time() >= f))
RECURSIVE TakeWhile(_, _)
TakeWhile(states, start_t_filter) ==
    IF states = <<>> THEN <<>>
    ELSE IF start_t_filter = None \/ start_time(Head(states)) >= start_t_filter[1]
    THEN <<Head(states)>> \o TakeWhile(Tail(states), start_t_filter)
    ELSE <<>>

\* the map the handler serializes
StatsInWindow(m, params) ==
    LET workers_filter == WorkersFilter(params.workers)
    IN [k \in {x \in DOMAIN m : Kept(workers_filter, x)} |->
            TakeWhile(SkipWhile(m[k], params.to_t), params.from_t)]

\* GET /worker-stats?workers={workers}&from_t={from_t}&to_t={to_t}
WorkerStatsGet(params) ==
    /\ resp' = [op |-> "worker_stats_get", params |-> params, status |-> 200,
                body |-> StatsInWindow(stats, params)]
    /\ UNCHANGED <<opts, now, kv, reaper_wake, stats, granted, served, free_at_tick,
                   ran_out, issued, raced>>

-----------------------------------------------------------------------------
(* Specifications *)

Init ==
    /\ opts \in OptsSpace
    /\ now = 0
    /\ kv = << >>
    /\ reaper_wake = ReapInterval
    /\ stats = << >>
    /\ resp = NoAnswer
    /\ granted = [k \in LockKeys |-> None]
    /\ served = [k \in LockKeys |-> <<>>]
    /\ free_at_tick = [k \in LockKeys |-> TRUE]
    /\ ran_out = [k \in LockKeys |-> FALSE]
    /\ issued = <<>>
    /\ raced = None

LeaseNext ==
    \/ Tick
    \/ ReaperTick
    \/ \E key \in LockKeys, timeout \in TimeoutParams : LockJobPut(key, timeout)

SpecLease == Init /\ [][LeaseNext]_vars

StatsNext ==
    \/ \E worker_id \in WorkerNames, req \in RegisterEvents :
           WorkerStatsPut(worker_id, req)
    \/ \E worker_id \in WorkerIds, req \in SnarkWorkerStatsPut \ RegisterEvents :
           WorkerStatsPut(worker_id, req)

\* the registry reads no option: one command line stands for all of them
InitStats == Init /\ opts.default_timeout = 1

SpecStats == InitStats /\ [][StatsNext]_vars

\* a Register whose {worker_id} is itself the id of an instance
RegisterUnderId ==
    \E worker_id \in WorkerIds, req \in RegisterEvents : WorkerStatsPut(worker_id, req)

SpecRegister == InitStats /\ [][StatsNext \/ RegisterUnderId \/ WorkersGet]_vars

QueryNext ==
    \/ WorkersGet
    \/ \E params \in WorkerStatsGetParams : WorkerStatsGet(params)

SpecQuery == InitStats /\ [][StatsNext \/ QueryNext]_vars

Next == LeaseNext \/ StatsNext \/ RegisterUnderId \/ QueryNext

\* the lease map and the registry side by side, on one lock key, without
\* ?timeout=, and with the events of one job batch up to the creation of the
\* work, reported at one time
FrameEvents ==
    {req \in SnarkWorkerStatsPut :
        /\ req.kind \notin {"WorkSubmitError", "WorkSubmitSuccess"}
        /\ req.time = 1
        /\ "ids" \in DOMAIN req => req.ids = "a"
        /\ req.kind = "JobGetError" => req.error.kind = "NoAvailableJob"}

FrameNext ==
    \/ Tick
    \/ ReaperTick
    \/ LockJobPut("a", None)
    \/ \E worker_id \in WorkerNames, req \in FrameEvents \cap RegisterEvents :
           WorkerStatsPut(worker_id, req)
    \/ \E worker_id \in WorkerIds, req \in FrameEvents \ RegisterEvents :
           WorkerStatsPut(worker_id, req)
    \/ WorkersGet
    \/ WorkerStatsGet([workers |-> None, from_t |-> None, to_t |-> None])

SpecFrame == InitStats /\ [][FrameNext]_vars

\* a registry in which the name w has been registered so often that of w_1 ..
\* w_4095 only some of the ids in Gaps are not yet keys; the histories are
\* those that Registers at time 1 have made
Gaps == {1, 2, 2048, RegisterEnd - 1}
Crowded(gaps) ==
    [id \in {Format("w", i) : i \in (1..(RegisterEnd - 1)) \ gaps} |->
        <<Registered(1)>>]

\* issued and raced record the requests from this state on
InitCrowded ==
    /\ opts \in OptsSpace /\ opts.default_timeout = 1
    /\ now = 0
    /\ kv = << >>
    /\ reaper_wake = ReapInterval
    /\ stats \in {Crowded(gaps) : gaps \in SUBSET Gaps}
    /\ resp = NoAnswer
    /\ granted = [k \in LockKeys |-> None]
    /\ served = [k \in LockKeys |-> <<>>]
    /\ free_at_tick = [k \in LockKeys |-> TRUE]
    /\ ran_out = [k \in LockKeys |-> FALSE]
    /\ issued = <<>>
    /\ raced = None

\* Registers, at time 2, under the crowded name w and under the fresh name
\* v, at most MaxRegisters of them accepted
CrowdedNames == {"w", "v"}
RegisterCrowded(worker_id, req) ==
    /\ Len(issued) < MaxRegisters
    /\ HandleWorkerStatsPut(worker_id, req)

CrowdedNext ==
    \E worker_id \in CrowdedNames : RegisterCrowded(worker_id, [kind |-> "Register", time |-> 2])

SpecCrowded == InitCrowded /\ [][CrowdedNext]_vars

Spec == Init /\ [][Next]_vars

\* the runtime keeps running the reaper task and the clock keeps advancing
FairSpecLease == SpecLease /\ WF_vars(Tick) /\ WF_vars(ReaperTick)

-----------------------------------------------------------------------------
(* Claims about the lease map *)

\* keys the service accepts
Accepted(key) == Len(key) <= opts.max_key_len

\* the step is the handling of the lease request recorded in resp'
IsLockJobPut ==
    /\ resp'.op = "lock_job_put"
    /\ LockJobPut(resp'.key, resp'.timeout)

\* C1: lease exclusivity over the lease window. A 201 on a key is not
\* answered before the instant T + ttl of the 201 answered before it on that
\* key (at T, for ttl seconds); and while T + ttl is in the future the entry
\* is in the map with that expiry: no reaper tick has removed it.
C1_Exclusive ==
    /\ (resp.op = "lock_job_put" /\ resp.status = 201 /\ resp.before # None)
           => RunsOutBy(resp.before, now)
    /\ \A k \in LockKeys :
           (granted[k] # None /\ ~RunsOutBy(granted[k], now))
               => (k \in DOMAIN kv /\ kv[k] = granted[k][1].at + granted[k][1].ttl)

\* a key is acquired again, at the instant its lease window of ttl > 0 ends,
\* while a reaper tick has kept the unexpired lease of another key
C1_Witness ==
    /\ resp.op = "lock_job_put" /\ resp.status = 201
    /\ resp.before # None /\ resp.before[1].ttl > 0
    /\ \E k \in DOMAIN kv : k # resp.key /\ ~free_at_tick[k] /\ kv[k] > now

\* C2: of the requests on a key that was absent after the last reaper tick,
\* made with no reaper tick in between, the first is answered 201 and every
\* other one 200, whatever their ttl.
C2_OneWinner ==
    \A k \in LockKeys :
        (free_at_tick[k] /\ served[k] # <<>>)
            => /\ served[k][1] = 201
               /\ \A i \in 2..Len(served[k]) : served[k][i] = 200

\* three requests in a row on a free key whose lease has ttl 0: the second
\* and the third come when the expiry is not in the future any more
C2_Witness ==
    \E k \in LockKeys :
        /\ free_at_tick[k]
        /\ Len(served[k]) >= 3
        /\ granted[k] # None /\ granted[k][1].ttl = 0

\* C3, safety: when the last lease granted on a key had run out at the last
\* reaper tick (at + ttl <= instant of the tick), the first request on the
\* key after the tick is answered 201.
C3_Reacquire ==
    \A k \in LockKeys :
        (ran_out[k] /\ served[k] # <<>>) => served[k][1] = 201

\* C3, liveness: a held key is absent from the map again later
C3_EventuallyFree ==
    \A k \in LockKeys : (k \in DOMAIN kv) ~> (k \notin DOMAIN kv)

\* C3: re-acquire after expiry, and every held key becomes acquirable again
C3_ReacquireAfterExpiry == []C3_Reacquire /\ C3_EventuallyFree

\* a lease with ttl > 0 was reaped by a tick at the very instant of its
\* expiry and the key is acquired again
C3_Witness ==
    /\ resp.op = "lock_job_put" /\ resp.status = 201
    /\ resp.before # None /\ resp.before[1].ttl > 0
    /\ resp.before[1].at + resp.before[1].ttl = reaper_wake - ReapInterval
    /\ ran_out[resp.key]
    /\ served[resp.key] = <<201>>

\* C4 as claimed: a request on an accepted key that is absent from the map,
\* or whose stored expiry has passed, is answered 201.
C4_FreeWhenAbsentOrExpired ==
    (resp.op = "lock_job_put" /\ Accepted(resp.key)
        /\ (resp.found = None \/ resp.found[1] < now))
        => resp.status = 201

\* C4 as amended: a request on an accepted key is answered 201 exactly when
\* the key is absent from the map; an entry whose expiry has passed still
\* holds the key until a reaper tick removes it.
C4_FreeIffAbsent ==
    (resp.op = "lock_job_put" /\ Accepted(resp.key))
        => /\ resp.found = None => resp.status = 201
           /\ resp.found # None => resp.status = 200

\* a request found an entry whose expiry had passed and was answered 200
C4_Witness ==
    /\ resp.op = "lock_job_put"
    /\ resp.found # None /\ resp.found[1] < now
    /\ resp.status = 200

\* C5, answer: a lease request is answered 400 exactly when its key is
\* longer than max_key_len
C5_Status ==
    resp.op = "lock_job_put" => (resp.status = 400 <=> Len(resp.key) > opts.max_key_len)

\* C5, frame: a request with a key longer than max_key_len leaves the map
\* as it is, whatever its timeout
C5_Frame ==
    (IsLockJobPut /\ Len(resp'.key) > opts.max_key_len)
        => (resp'.status = 400 /\ kv' = kv)

\* C5: a key longer than max_key_len is always refused with 400 and the map
\* left unchanged; a key of length max_key_len is not refused
C5_KeyTooLong == []C5_Status /\ [][C5_Frame]_vars

\* a too long key was refused while another key was held, with a timeout
\* above the maximum
C5_Witness ==
    /\ resp.op = "lock_job_put" /\ resp.status = 400
    /\ resp.timeout # None /\ resp.timeout[1] > opts.max_timeout
    /\ kv # << >>

\* C6, no renewal: a request on a key that is in the map is answered 200 and
\* leaves the map unchanged
C6_Frame ==
    (IsLockJobPut /\ resp'.key \in DOMAIN kv)
        => (resp'.status = 200 /\ kv' = kv)

\* C6, no lazy eviction: a step that removes an entry or changes an expiry
\* is a reaper tick
C6_OnlyReaperRemoves ==
    (\E k \in DOMAIN kv : k \notin DOMAIN kv' \/ kv'[k] # kv[k]) => ReaperTick

\* C6: no renewal and no lazy eviction
C6_NoRenewal == [][C6_Frame]_vars /\ [][C6_OnlyReaperRemoves]_vars

\* a request with another ttl than the lease's was answered 200 on an entry
\* whose expiry had passed, and the entry is still there
C6_Witness ==
    /\ resp.op = "lock_job_put" /\ resp.status = 200
    /\ resp.found # None /\ resp.found[1] < now
    /\ kv[resp.key] = resp.found[1]
    /\ now + TimeoutS(resp.timeout) # resp.found[1]

-----------------------------------------------------------------------------
(* Claims about the worker registry *)

Known(worker_id) == worker_id \in DOMAIN stats
Front(worker_id) == Head(stats[worker_id])
CarriesIds(x) == "ids" \in DOMAIN x

\* the step is the handling of the worker-stats request recorded in resp'
IsWorkerStatsPut ==
    /\ resp'.op = "worker_stats_put"
    /\ WorkerStatsPut(resp'.worker_id, resp'.req)

IsStepEvent(req) == req.kind \notin {"Register", "JobGetInit"}

\* C7: for a known worker instance, an event other than JobGetInit and
\* Register is answered 200 if and only if its pair with the front snapshot
\* is in the transition table; any other pair is answered 400 and leaves the
\* registry, so the whole history of the instance, unchanged.
C7_Step ==
    (IsWorkerStatsPut /\ IsStepEvent(resp'.req) /\ Known(resp'.worker_id))
        => IF InTable(Front(resp'.worker_id), resp'.req)
           THEN resp'.status = 200
           ELSE resp'.status = 400 /\ stats' = stats

\* C7: the strict transition table holds of every step
C7_TransitionTable == [][C7_Step]_vars

\* WorkSubmitSuccess right after JobGetInit was answered 400
C7_Witness ==
    /\ resp.op = "worker_stats_put" /\ resp.status = 400
    /\ resp.req.kind = "WorkSubmitSuccess"
    /\ Known(resp.worker_id) /\ Front(resp.worker_id).kind = "JobGetPending"

\* C8, the check: on a front snapshot that carries ids, a work-create or
\* work-submit event with other ids is answered 400 and leaves the registry
\* unchanged, and the event of the snapshot's stage with the same ids is
\* answered 200.
C8_Step ==
    LET worker_id == resp'.worker_id
        req == resp'.req
    IN (IsWorkerStatsPut /\ Known(worker_id) /\ CarriesIds(Front(worker_id))
            /\ req.kind \in {"WorkCreateError", "WorkCreateSuccess",
                             "WorkSubmitError", "WorkSubmitSuccess"})
            => /\ req.ids # Front(worker_id).ids
                   => (resp'.status = 400 /\ stats' = stats)
               /\ ( /\ req.ids = Front(worker_id).ids
                    /\ \/ Front(worker_id).kind = "WorkCreatePending"
                              /\ req.kind \in {"WorkCreateError", "WorkCreateSuccess"}
                       \/ Front(worker_id).kind = "WorkSubmitPending"
                              /\ req.kind \in {"WorkSubmitError", "WorkSubmitSuccess"} )
                   => (resp'.status = 200 /\ stats'[worker_id] # stats[worker_id])

\* C8, the stored ids: while no new cycle is pushed on a history, the ids of
\* its front snapshot stay what JobGetSuccess made them.
C8_IdsKept ==
    \A id \in DOMAIN stats :
        (CarriesIds(Front(id)) /\ Len(stats'[id]) = Len(stats[id]))
            => (CarriesIds(Head(stats'[id])) /\ Head(stats'[id]).ids = Front(id).ids)

\* C8: the ids check
C8_IdsCheck == [][C8_Step]_vars /\ [][C8_IdsKept]_vars

\* WorkSubmitSuccess with other ids than the cycle's was answered 400 on a
\* WorkSubmitPending snapshot
C8_Witness ==
    /\ resp.op = "worker_stats_put" /\ resp.status = 400
    /\ resp.req.kind = "WorkSubmitSuccess"
    /\ Known(resp.worker_id) /\ Front(resp.worker_id).kind = "WorkSubmitPending"
    /\ resp.req.ids # Front(resp.worker_id).ids

\* C9: JobGetInit(time) is answered 200 in every state, and makes
\* JobGetPending{job_get_init_t = time} the new front of the history of its
\* worker id, with the snapshots stored before behind it, unchanged and in
\* their order; no other history changes.
C9_Step ==
    LET worker_id == resp'.worker_id
        req == resp'.req
    IN (IsWorkerStatsPut /\ req.kind = "JobGetInit")
            => /\ resp'.status = 200
               /\ DOMAIN stats' = DOMAIN stats \cup {worker_id}
               /\ stats'[worker_id] =
                      <<[kind |-> "JobGetPending", job_get_init_t |-> req.time]>>
                          \o (IF Known(worker_id) THEN stats[worker_id] ELSE <<>>)
               /\ \A id \in DOMAIN stats : id # worker_id => stats'[id] = stats[id]

\* C9: JobGetInit is always accepted and pushes a new front, in every step
C9_JobGetInit == [][C9_Step]_vars

\* JobGetInit was accepted on a history whose front was the terminal
\* WorkCreateError, which is now behind the new JobGetPending
C9_Witness ==
    /\ resp.op = "worker_stats_put" /\ resp.status = 200
    /\ resp.req.kind = "JobGetInit"
    /\ Len(stats[resp.worker_id]) = 2
    /\ stats[resp.worker_id][1] = [kind |-> "JobGetPending",
                                   job_get_init_t |-> resp.req.time]
    /\ stats[resp.worker_id][2].kind = "WorkCreateError"
    /\ stats[resp.worker_id][2].job_get_init_t # resp.req.time

\* name_n is no key of the registry
IsFree(name, n) == Format(name, n) \notin DOMAIN stats

\* C10: while one of the candidates name_1 .. name_4095 is free,
\* Register(name, time) answers 200 with the id name_n of the smallest n for
\* which name_n is no key of the registry, gives that id a history of the one
\* snapshot Registered{registered_t = time}, and changes no other history.
C10_Step ==
    LET name == resp'.worker_id
        req == resp'.req
    IN (IsWorkerStatsPut /\ req.kind = "Register"
            /\ \E n \in 1..(RegisterEnd - 1) : IsFree(name, n))
            => LET n == CHOOSE i \in 1..(RegisterEnd - 1) :
                            IsFree(name, i) /\ \A j \in 1..(i - 1) : ~IsFree(name, j)
                   id == Format(name, n)
               IN /\ resp'.status = 200 /\ resp'.body = id
                  /\ DOMAIN stats' = DOMAIN stats \cup {id}
                  /\ stats'[id] = <<[kind |-> "Registered", registered_t |-> req.time]>>
                  /\ \A k \in DOMAIN stats : stats'[k] = stats[k]

\* C10: Register allocates the first unused id name_n, in every step
C10_Register == [][C10_Step]_vars

\* with w_1 made by a JobGetInit, Register("w") answered w_2, and did so
\* again after w_2 was taken: w_3
C10_Witness ==
    /\ resp.op = "worker_stats_put" /\ resp.status = 200
    /\ resp.req.kind = "Register" /\ resp.worker_id = "w"
    /\ resp.body = "w_3"
    /\ DOMAIN stats = {"w_1", "w_2", "w_3"}
    /\ stats["w_1"][1].kind # "Registered"
    /\ stats["w_2"][1].kind = "Registered"

-----------------------------------------------------------------------------
(* Claims about registration, unknown workers and queries *)

\* the ids answered to the accepted Registers are pairwise different and
\* each of them is a key of the registry
IssuedOnce ==
    /\ \A i, j \in 1..Len(issued) : i # j => issued[i] # issued[j]
    /\ \A i \in 1..Len(issued) : issued[i] \in DOMAIN stats

\* an accepted Register answers an id that had no history and leaves every
\* history there was as it was
C11_Step ==
    (IsWorkerStatsPut /\ resp'.req.kind = "Register" /\ resp'.status = 200)
        => /\ resp'.body \notin DOMAIN stats
           /\ \A id \in DOMAIN stats : id \in DOMAIN stats' /\ stats'[id] = stats[id]

\* C11: in every interleaving of Register requests with the other worker-stats
\* requests, no two accepted Registers are answered the same id, and an
\* accepted Register is never answered an id that already had a history, nor
\* does it overwrite one.
C11_UniqueIds == []IssuedOnce /\ [][C11_Step]_vars

\* a Register under the name w and one under the name w_1 were accepted after
\* a JobGetInit had created w_1 without a Register, and a cycle of w_1 has
\* gone on since
C11_Witness ==
    /\ Len(issued) = 2
    /\ {issued[1], issued[2]} = {"w_2", "w_1_1"}
    /\ "w_1" \in DOMAIN stats
    /\ stats["w_1"][1].kind = "WorkCreatePending"
    /\ resp.op = "worker_stats_put" /\ resp.req.kind = "Register"

\* an event other than JobGetInit and Register for an id that has no history
\* is answered 400 and leaves the registry as it was: no history is created
C12_Step ==
    (IsWorkerStatsPut /\ IsStepEvent(resp'.req) /\ resp'.worker_id \notin DOMAIN stats)
        => /\ resp'.status = 400
           /\ resp'.body = "unexpected worker_stats/put"
           /\ stats' = stats
           /\ resp'.worker_id \notin DOMAIN stats'

\* GET /workers lists the ids that have a history, and only them
C12_Listed == resp.op = "workers_get" => resp.body = DOMAIN stats

\* C12: an event other than JobGetInit and Register addressed to an id that
\* has no history is rejected with 400, it leaves the registry unchanged and
\* creates no history for that id, so that GET /workers, which answers the
\* ids that have a history, does not list the id afterwards.
C12_UnknownWorker == [][C12_Step]_vars /\ []C12_Listed

\* a JobGetSuccess for w_1 has been rejected while w_1 has no history and the
\* registry holds the history of another instance
C12_Witness ==
    /\ resp.op = "worker_stats_put" /\ resp.req.kind = "JobGetSuccess"
    /\ resp.status = 400
    /\ resp.worker_id \notin DOMAIN stats
    /\ DOMAIN stats # {}

\* v is a run of consecutive snapshots of the history h, in the order of h
IsSlice(v, h) ==
    \E n \in 0..(Len(h) - Len(v)) : \A i \in 1..Len(v) : v[i] = h[n + i]

\* C13: whatever times the workers have reported, a GET /worker-stats with
\* from_t and/or to_t answers, for every instance it includes, only snapshots
\* whose start time is at least from_t and whose end time is at most to_t, in
\* the newest-first order of the history.
C13_InWindow ==
    resp.op = "worker_stats_get"
        => \A k \in DOMAIN resp.body :
               /\ IsSlice(resp.body[k], stats[k])
               /\ \A i \in 1..Len(resp.body[k]) :
                      /\ resp.params.from_t # None
                             => start_time(resp.body[k][i]) >= resp.params.from_t[1]
                      /\ resp.params.to_t # None
                             => end_time(resp.body[k][i]) <= resp.params.to_t[1]

\* the ids named by a ?workers= parameter: its pieces between the commas
NamedIn(workers) == {workers[i] : i \in 1..Len(workers)} \ {","}

\* C14: the ids of the answer of GET /worker-stats are exactly the known ids
\* that are named in the workers filter, or all known ids when there is no
\* filter, whatever the time window is: an instance without a snapshot in
\* the window is answered with an empty sequence, and an id that is not
\* named or not known is not in the answer.
C14_WorkerFilter ==
    resp.op = "worker_stats_get"
        => /\ DOMAIN resp.body =
                  IF resp.params.workers = None
                  THEN DOMAIN stats
                  ELSE DOMAIN stats \cap NamedIn(resp.params.workers[1])
           /\ \A k \in DOMAIN resp.body : \A i \in 1..Len(resp.body[k]) :
                  \E j \in 1..Len(stats[k]) : resp.body[k][i] = stats[k][j]

\* the filter names the unknown x and w_2; w_1 and w_2 are known, the window
\* holds no snapshot of w_2, and the answer is w_2 with an empty sequence
C14_Witness ==
    /\ resp.op = "worker_stats_get"
    /\ resp.params.workers = Some(<<"x", ",", "w_2">>)
    /\ {"w_1", "w_2"} \subseteq DOMAIN stats
    /\ DOMAIN resp.body = {"w_2"}
    /\ resp.body["w_2"] = <<>>

-----------------------------------------------------------------------------
(* Claims about races on a front, the effective time to live and the reaper *)

\* C15: of two events that are both valid for the pending front of a worker
\* and are handled, in either order, with no JobGetInit of that worker in
\* between, the one handled first is answered 200 and the other one 400,
\* and the front is then the snapshot that the first event alone makes of the
\* front it found.
C15_OneAccepted ==
    raced # None
        => LET r == raced[1]
           IN /\ InTable(r.front, r.winner)
              /\ r.statuses[1] = 200
              /\ \A i \in 2..Len(r.statuses) : r.statuses[i] = 400
              /\ Front(r.worker_id) = apply(r.front, r.winner).state

\* a JobGetError has been rejected after a JobGetSuccess, both valid for the
\* JobGetPending front that the JobGetSuccess found
C15_Witness ==
    /\ raced # None
    /\ raced[1].front.kind = "JobGetPending"
    /\ raced[1].winner.kind = "JobGetSuccess"
    /\ raced[1].statuses = <<200, 400>>
    /\ resp.op = "worker_stats_put" /\ resp.worker_id = raced[1].worker_id
    /\ resp.req.kind = "JobGetError" /\ resp.status = 400

\* C16: the expiry stored by a 201 is the instant of the request plus the
\* smaller of max_timeout and the requested timeout, which is the ?timeout=
\* parameter if there is one and default_timeout otherwise; it is never later
\* than now + max_timeout, also when default_timeout exceeds max_timeout,
\* and never earlier than now.
C16_EffectiveTtl ==
    (resp.op = "lock_job_put" /\ resp.status = 201)
        => LET requested == IF resp.timeout = None
                            THEN opts.default_timeout
                            ELSE resp.timeout[1]
               effective == IF requested <= opts.max_timeout
                            THEN requested
                            ELSE opts.max_timeout
           IN /\ resp.key \in DOMAIN kv
              /\ kv[resp.key] = now + effective
              /\ kv[resp.key] <= now + opts.max_timeout
              /\ kv[resp.key] >= now

\* a 201 without ?timeout= under a default_timeout above max_timeout
C16_Witness ==
    /\ resp.op = "lock_job_put" /\ resp.status = 201
    /\ resp.timeout = None
    /\ opts.default_timeout > opts.max_timeout
    /\ now > 0
    /\ kv[resp.key] = now + opts.max_timeout

\* a step of the reaper at the instant now removes the entries whose expiry
\* is at or before now and no other, and changes no expiry
C17_Step ==
    reaper_wake' # reaper_wake
        => /\ DOMAIN kv' = {k \in DOMAIN kv : ~(kv[k] <= now)}
           /\ DOMAIN kv' \subseteq DOMAIN kv
           /\ \A k \in DOMAIN kv' : kv'[k] = kv[k]

\* C17: a Reaper tick at the instant now removes exactly the entries whose
\* expiry is at or before now, leaves every entry whose expiry is after now
\* in the map with the same expiry, and adds no entry.
C17_ReaperTick == [][C17_Step]_vars

\* the last step was a reaper tick that removed a key at the very instant of
\* its expiry and kept another key whose expiry is later
C17_Witness ==
    /\ resp = NoAnswer /\ reaper_wake = now + ReapInterval
    /\ \E k \in LockKeys :
           /\ granted[k] # None /\ granted[k][1].at + granted[k][1].ttl = now
           /\ granted[k][1].ttl > 0
           /\ k \notin DOMAIN kv
    /\ \E k \in DOMAIN kv : kv[k] > now

-----------------------------------------------------------------------------
(* Claims about the frame of the registry, accretion and exhaustion *)

\* the history h is the end of the history g, snapshot by snapshot
IsSuffix(h, g) ==
    /\ Len(h) <= Len(g)
    /\ \A i \in 1..Len(h) : h[i] = g[Len(g) - Len(h) + i]

\* the three ways in which a step changes the registry
C18_Changed ==
    /\ IsWorkerStatsPut /\ resp'.status = 200
    /\ LET req == resp'.req
           id == IF req.kind = "Register" THEN resp'.body ELSE resp'.worker_id
       IN /\ DOMAIN stats' = DOMAIN stats \cup {id}
          /\ \A k \in DOMAIN stats \ {id} : stats'[k] = stats[k]
          /\ CASE req.kind = "Register" ->
                      id \notin DOMAIN stats /\ Len(stats'[id]) = 1
                [] req.kind = "JobGetInit" ->
                      Tail(stats'[id]) = IF id \in DOMAIN stats THEN stats[id] ELSE <<>>
                [] OTHER ->
                      /\ id \in DOMAIN stats
                      /\ Len(stats'[id]) = Len(stats[id])
                      /\ Tail(stats'[id]) = Tail(stats[id])

\* no step removes an instance, shortens a history or touches a snapshot
\* behind the front; a step that answers no accepted worker-stats request
\* leaves the registry as it is
C18_Step ==
    /\ stats' # stats => C18_Changed
    /\ \A k \in DOMAIN stats :
           /\ k \in DOMAIN stats'
           /\ Len(stats'[k]) >= Len(stats[k])
           /\ IsSuffix(Tail(stats[k]), stats'[k])
    /\ (resp'.op # "worker_stats_put" \/ resp'.status # 200) => stats' = stats

\* C18: the registry changes only by an accepted Register (a new key), an
\* accepted JobGetInit (a new front) and an accepted event (the front
\* replaced); lease requests, reaper ticks, GET /workers, GET /worker-stats
\* and rejected events leave it unchanged, and no step removes an instance,
\* shortens a history, or changes or reorders the snapshots behind a front.
C18_RegistryFrame == [][C18_Step]_vars

\* a lease is granted after a reaper tick while w_1 has a history of an
\* open cycle in front of older snapshots
C18_Witness ==
    /\ resp.op = "lock_job_put" /\ resp.status = 201
    /\ reaper_wake > ReapInterval
    /\ "w_1" \in DOMAIN stats /\ Len(stats["w_1"]) >= 2
    /\ stats["w_1"][1].kind = "WorkCreatePending"

\* the field of a snapshot that holds the time of the event that made it
OwnTime(kind) ==
    CASE kind = "JobGetError" -> "job_get_error_t"
      [] kind = "JobGetSuccess" -> "job_get_success_t"
      [] kind = "WorkCreateError" -> "work_create_error_t"
      [] kind = "WorkCreateSuccess" -> "work_create_success_t"
      [] kind = "WorkSubmitError" -> "work_submit_error_t"
      [] kind = "WorkSubmitSuccess" -> "work_submit_success_t"

\* an accepted event makes a front that has every field of the front it
\* found, with the same value, and its own time; a JobGetInit makes a front
\* whose start time is its time
C19_Step ==
    LET worker_id == resp'.worker_id
        req == resp'.req
    IN /\ (IsWorkerStatsPut /\ IsStepEvent(req) /\ resp'.status = 200)
              => LET old == Head(stats[worker_id])
                     new == Head(stats'[worker_id])
                 IN /\ \A f \in DOMAIN old \ {"kind"} :
                           f \in DOMAIN new /\ new[f] = old[f]
                    /\ new[OwnTime(req.kind)] = req.time
                    /\ start_time(new) = start_time(old)
                    /\ Tail(stats'[worker_id]) = Tail(stats[worker_id])
       /\ (IsWorkerStatsPut /\ req.kind = "JobGetInit")
              => start_time(Head(stats'[worker_id])) = req.time

\* C19: within a cycle every accepted event keeps every field of the
\* snapshot before it and adds its own time, so that the start time of the
\* front is the same over the whole cycle and is the time of the JobGetInit
\* that opened it.
C19_Accretion == [][C19_Step]_vars

\* a cycle opened at time 1 has been completed by events reported at time 2,
\* and its snapshot holds the times of all four events
C19_Witness ==
    /\ resp.op = "worker_stats_put" /\ resp.status = 200
    /\ resp.req.kind = "WorkSubmitSuccess" /\ resp.req.time = 2
    /\ LET s == Head(stats[resp.worker_id])
       IN /\ s.kind = "WorkSubmitSuccess"
          /\ s.job_get_init_t = 1
          /\ s.job_get_success_t = 2
          /\ s.work_create_success_t = 2
          /\ s.work_submit_success_t = 2
          /\ start_time(s) = 1

\* the last candidate of a Register: name_1 .. name_4095 are tried
LastCandidate == 4095

\* every candidate id of the name is a key of the registry
AllTaken(name) == \A n \in 1..LastCandidate : Format(name, n) \in DOMAIN stats

\* a Register is answered 400 exactly when every candidate id of its name is
\* a key, and then the registry is unchanged; otherwise it is answered 200
C20_Step ==
    LET name == resp'.worker_id
    IN (resp'.op = "worker_stats_put" /\ resp'.req.kind = "Register"
            /\ RegisterCrowded(name, resp'.req))
            => /\ resp'.status = 400 <=> AllTaken(name)
               /\ AllTaken(name)
                      => /\ stats' = stats
                         /\ resp'.body = "too many workers under same worker_id"
               /\ ~AllTaken(name)
                      => /\ resp'.status = 200
                         /\ resp'.body \in DOMAIN stats' \ DOMAIN stats

\* C20: a Register under a name fails, with 400, if and only if every
\* candidate id name_1 .. name_N, N = 4095, is already a key of the
\* registry, and then the registry is unchanged; if at least one candidate
\* is free the Register succeeds.
C20_Exhausted == [][C20_Step]_vars

\* a Register under w is rejected after a Register took the last free
\* candidate w_4095, while the name v has been registered with success
C20_Witness ==
    /\ resp.op = "worker_stats_put" /\ resp.req.kind = "Register"
    /\ resp.worker_id = "w" /\ resp.status = 400
    /\ \E i \in 1..Len(issued) : issued[i] = Format("w", LastCandidate)
    /\ \E i \in 1..Len(issued) : issued[i] = "v_1"
    /\ AllTaken("w")

-----------------------------------------------------------------------------
(* Claims about the histories of the registry *)

\* every history of the registry has a front snapshot
C21_Fronted == \A k \in DOMAIN stats : stats[k] # <<>>

\* a 200 to an event other than JobGetInit and Register was answered for a
\* known instance with a front, and the front is one stage further on
C21_Step ==
    LET worker_id == resp'.worker_id
    IN (IsWorkerStatsPut /\ IsStepEvent(resp'.req) /\ resp'.status = 200)
           => /\ Known(worker_id)
              /\ stats[worker_id] # <<>>
              /\ stats' # stats
              /\ Stage(Head(stats'[worker_id])) = Stage(Head(stats[worker_id])) + 1

\* C21: in every reachable state every history of the registry is non-empty,
\* so that the branch that answers 200 without applying the event, taken
\* when a known instance has no front (front_mut() is None), is never
\* taken: a 200 to an event other than JobGetInit and Register always means
\* that the front snapshot was advanced.
C21_NonEmpty == []C21_Fronted /\ [][C21_Step]_vars

\* a JobGetError has been answered 200 for an instance made by a Register,
\* whose history holds the closed cycle in front of the Registered snapshot
C21_Witness ==
    /\ resp.op = "worker_stats_put" /\ resp.status = 200
    /\ resp.req.kind = "JobGetError"
    /\ Known(resp.worker_id)
    /\ Len(stats[resp.worker_id]) = 2
    /\ Front(resp.worker_id).kind = "JobGetError"
    /\ stats[resp.worker_id][2].kind = "Registered"


====
